---- MODULE Spec2Model ----
(***************************************************************************)
(* Model of the Cosmos DB migration tool: DataMigrator.migrate_container   *)
(* (src/src/migration.py) run against a source collection and a target     *)
(* store.                                                                  *)
(*                                                                         *)
(* Strings (field names, partition-key paths, string values) are finite    *)
(* sequences of symbols, so that str.strip, str.split and indexing         *)
(* (pk_value[0]) are computed and not assumed.  A JSON value is a record   *)
(* tagged by t: null, str, num, map (a function from field names to        *)
(* values) or seq (a sequence of values).                                  *)
(***************************************************************************)
EXTENDS Integers, Sequences, FiniteSets, TLC

----------------------------------------------------------------------------
(* Bounds of the model *)

MaxDocs == 2        \* documents in the source collection
MaxContainers == 2  \* containers in the database migrate_database runs on

(* DataMigrator.__init__ defaults of batch_size and max_retries *)
DefaultBatchSize == 100
DefaultMaxRetries == 3

----------------------------------------------------------------------------
(* JSON values *)

Null == [t |-> "null"]
Str(s) == [t |-> "str", s |-> s]
Num(n) == [t |-> "num", n |-> n]
Map(m) == [t |-> "map", m |-> m]
List(e) == [t |-> "seq", e |-> e]

\* The name of a field spelled with one symbol.
K(x) == <<x>>

\* dict.get(key): the value, or None when the key is absent.
Get(m, key) == IF key \in DOMAIN m THEN m[key] ELSE Null

\* Python truthiness, as used by `if not item_id`.
Falsy(v) ==
    \/ v.t = "null"
    \/ v.t = "str" /\ v.s = <<>>
    \/ v.t = "num" /\ v.n = 0
    \/ v.t = "map" /\ DOMAIN v.m = {}
    \/ v.t = "seq" /\ v.e = <<>>

----------------------------------------------------------------------------
(* str.strip("/") and str.split("/") *)

RECURSIVE LStrip(_)
LStrip(s) == IF s # <<>> /\ Head(s) = "/" THEN LStrip(Tail(s)) ELSE s

RECURSIVE RStrip(_)
RStrip(s) ==
    IF s # <<>> /\ s[Len(s)] = "/" THEN RStrip(SubSeq(s, 1, Len(s) - 1)) ELSE s

strip(s) == RStrip(LStrip(s))

RECURSIVE split(_)
split(s) ==
    IF \A i \in 1..Len(s) : s[i] # "/"
    THEN <<s>>
    ELSE LET i == CHOOSE i \in 1..Len(s) :
                      s[i] = "/" /\ \A j \in 1..(i - 1) : s[j] # "/"
         IN  <<SubSeq(s, 1, i - 1)>> \o split(SubSeq(s, i + 1, Len(s)))

\* DataMigrator._get_partition_key_path: container.read()["partitionKey"]["paths"],
\* each stripped of its slashes.
_get_partition_key_path(paths) == [i \in 1..Len(paths) |-> strip(paths[i])]

----------------------------------------------------------------------------
(* DataMigrator._get_partition_key_value *)

\* The outcome of an AttributeError: value.get on a str, number or list.
\* The except clause names KeyError and TypeError only, so it propagates.
AttributeError == [t |-> "raise", exc |-> "AttributeError"]

RECURSIVE Traverse(_, _)
Traverse(value, keys) ==
    IF keys = <<>> THEN value
    ELSE IF value.t # "map" THEN AttributeError
    ELSE LET v == Get(value.m, Head(keys))
         IN  IF v = Null THEN Null ELSE Traverse(v, Tail(keys))

\* One element per path; the first element that raises ends the call.
_get_partition_key_value(item, pk_paths) ==
    LET vals == [i \in 1..Len(pk_paths) |-> Traverse(Map(item), split(pk_paths[i]))]
    IN  IF \E i \in 1..Len(vals) : vals[i].t = "raise" THEN AttributeError
        ELSE List(vals)

\* Line 101: any(pk_value is None or isinstance(pk_value, (dict, list))
\*               or pk_value in ["", None] ...)
InvalidPkValue(v) ==
    \/ v.t = "null"
    \/ v.t \in {"map", "seq"}
    \/ v = Str(<<>>)

AnyInvalid(pk_values) == \E i \in 1..Len(pk_values) : InvalidPkValue(pk_values[i])

\* Lines 112-114: ensure the partition key exists in the body.
RECURSIVE Backfill(_, _, _)
Backfill(item, pk_paths, pk_values) ==
    IF pk_paths = <<>> THEN item
    ELSE LET it == IF Head(pk_paths) \notin DOMAIN item
                   THEN (Head(pk_paths) :> Head(pk_values)) @@ item
                   ELSE item
         IN  Backfill(it, Tail(pk_paths), Tail(pk_values))

----------------------------------------------------------------------------
(* remove_system_fields and sanitize_document_recursive *)

SystemFields == {K("_etag"), K("_rid"), K("_self"), K("_ts")}

\* Pops the four system fields of a mapping and descends into nested
\* mappings; a nested list is passed to the function, which leaves it alone.
RECURSIVE remove_system_fields(_)
remove_system_fields(doc) ==
    [k \in DOMAIN doc \ SystemFields |->
        IF doc[k].t = "map" THEN Map(remove_system_fields(doc[k].m)) ELSE doc[k]]

\* The keys of SANITIZE_FIELDS that occur in the modelled documents.
SANITIZE_FIELDS == {K("name"), K("state")}

\* str.lower on the symbols of a field name.
LowerSym(c) == CASE c = "Name" -> "name" [] c = "State" -> "state" [] OTHER -> c

lower(key) == [i \in 1..Len(key) |-> LowerSym(key[i])]

\* What a faker generator can return; "REDACTED" when the generator raises.
\* A generated value may happen to equal the value it replaces.
FakeValues == {Str(<<"fake">>), Str(<<"s">>)}

\* The draws of one sanitizer call: gen[k] is the value the generator of
\* rule k returns.  The generators of one call draw the same value.
Generators == {[k \in SANITIZE_FIELDS |-> v] : v \in FakeValues}

RECURSIVE sanitize_value(_, _)
sanitize_value(v, gen) ==
    IF v.t = "map"
    THEN Map([k \in DOMAIN v.m |->
                IF lower(k) \in SANITIZE_FIELDS THEN gen[lower(k)]
                ELSE IF v.m[k].t \in {"map", "seq"} THEN sanitize_value(v.m[k], gen)
                ELSE v.m[k]])
    ELSE IF v.t = "seq"
    THEN List([i \in 1..Len(v.e) |-> sanitize_value(v.e[i], gen)])
    ELSE v

sanitize_document_recursive(doc, gen) == sanitize_value(Map(doc), gen).m

\* Lines 132-134 and 141-143: item.copy(), sanitized when self.sanitize.
ItemToWrite(item, san, gen) ==
    IF san THEN sanitize_document_recursive(item, gen) ELSE item

----------------------------------------------------------------------------
(* The document store behind source_container and target_container *)

\* The system fields a store sets on every document it holds.
Stamp(body, who) ==
    [k \in DOMAIN body \cup SystemFields |->
        IF k \in SystemFields THEN Str(<<who>>) ELSE body[k]]

\* The value the store finds in a body at one partition-key path.
RECURSIVE StoreExtract(_, _)
StoreExtract(value, keys) ==
    IF keys = <<>> THEN value
    ELSE IF value.t # "map" THEN Null
    ELSE StoreExtract(Get(value.m, Head(keys)), Tail(keys))

\* The partition key the store files a body under: the value at the single
\* path, or the list of the values at the paths of a hierarchical key.
StorePk(body, paths) ==
    LET vals == [i \in 1..Len(paths) |->
                    StoreExtract(Map(body), split(strip(paths[i])))]
    IN  IF Len(paths) = 1 THEN vals[1] ELSE List(vals)

\* The stored documents with this id in this partition (at most one).
Find(tgt, id, key, paths) ==
    {d \in tgt : Get(d, K("id")) = id /\ StorePk(d, paths) = key}

\* target_container.create_item(body=...)
create_item(tgt, body, paths) ==
    IF Find(tgt, Get(body, K("id")), StorePk(body, paths), paths) # {}
    THEN [res |-> "Conflict", tgt |-> tgt]
    ELSE [res |-> "ok", tgt |-> tgt \cup {Stamp(body, "tgt")}]

\* target_container.replace_item(item=item_id, body=...)
replace_item(tgt, id, body, paths) ==
    LET old == Find(tgt, id, StorePk(body, paths), paths)
    IN  IF old = {}
        THEN [res |-> "NotFound", tgt |-> tgt]
        ELSE [res |-> "ok", tgt |-> (tgt \ old) \cup {Stamp(body, "tgt")}]

\* What a store call can answer besides its result: a transient failure
\* (throttling, timeout, 5xx).
Responses == {"ok", "transient"}

----------------------------------------------------------------------------
(* The per-document part of migrate_container, lines 92-150 *)

TypeError == [t |-> "raise", exc |-> "TypeError"]

\* pk_value[0]: the first character of a str; a number is not subscriptable.
Subscript0(v) ==
    IF v.t = "str" THEN Str(<<v.s[1]>>)
    ELSE IF v.t = "seq" THEN v.e[1]
    ELSE TypeError

\* Line 121: pk_values if len(pk_values) > 1 else pk_value[0], where pk_value
\* is what the loop of line 112 left: the last element of pk_values.
LookupKey(pk_values) ==
    IF Len(pk_values) > 1 THEN List(pk_values)
    ELSE Subscript0(pk_values[Len(pk_values)])

\* What processing one document did: its outcome ("inserted", "updated",
\* "skipped", "error", "none" when no counter moved, "raise" when an
\* exception left migrate_container), the target afterwards, the store calls
\* issued (reads, creates, replaces) and succeeded (created, replaced), the
\* key of the read, the attempts made and the body last written.
Done(outcome, tgt, exc, key, attempts, reads, creates, replaces, created, replaced, body) ==
    [outcome |-> outcome, tgt |-> tgt, exc |-> exc, key |-> key,
     attempts |-> attempts, reads |-> reads, creates |-> creates,
     replaces |-> replaces, created |-> created, replaced |-> replaced,
     body |-> body]

NoBody == <<>>

\* The handler with inserted counted before create_item is called and a
\* conflict swallowed.  C22 is checked to fail with it.
InsertPathCountsFirst(item, tgt, paths, san, cf, gen, key, replaces) ==
    LET item_to_write == ItemToWrite(item, san, gen)
        r == create_item(tgt, item_to_write, paths)
    IN  IF cf = "transient"
        THEN Done("raise", tgt, "CosmosHttpResponseError", key, 1, 1, 1, replaces, 0, 0, item_to_write)
        ELSE IF r.res = "Conflict"
        THEN Done("inserted", tgt, "", key, 1, 1, 1, replaces, 0, 0, item_to_write)
        ELSE Done("inserted", r.tgt, "", key, 1, 1, 1, replaces, 1, 0, item_to_write)

\* Lines 140-146: the handler of CosmosResourceNotFoundError.  A conflict or
\* a transient failure of create_item is raised inside the handler, where
\* no except clause applies.
InsertPath(item, tgt, paths, san, cf, gen, key, replaces) ==
    LET item_to_write == ItemToWrite(item, san, gen)
        r == create_item(tgt, item_to_write, paths)
    IN  IF cf = "transient"
        THEN Done("raise", tgt, "CosmosHttpResponseError", key, 1, 1, 1, replaces, 0, 0, item_to_write)
        ELSE IF r.res = "Conflict"
        THEN Done("raise", tgt, "CosmosResourceExistsError", key, 1, 1, 1, replaces, 0, 0, item_to_write)
        ELSE Done("inserted", r.tgt, "", key, 1, 1, 1, replaces, 1, 0, item_to_write)

\* Lines 116-148: the loop over range(1, max_retries + 1).  Its body ends in
\* break or in an exception, so it runs at most once.  rf, uf and cf are the
\* answers of the store to read_item, replace_item and create_item; gen1 and
\* gen2 are the generator draws of the two sanitizer calls.
Reconcile(item, item_id, pk_values, tgt, paths, n, san, rf, uf, cf, gen1, gen2) ==
    LET key == LookupKey(pk_values)
        found == Find(tgt, item_id, key, paths)
        target_doc == CHOOSE d \in found : TRUE
        sanitized_item == remove_system_fields(item)
        item_to_write == ItemToWrite(sanitized_item, san, gen1)
        r == replace_item(tgt, item_id, item_to_write, paths)
    IN  IF n < 1
        THEN Done("none", tgt, "", Null, 0, 0, 0, 0, 0, 0, NoBody)
        ELSE IF key.t = "raise"
        THEN Done("raise", tgt, key.exc, Null, 1, 0, 0, 0, 0, 0, NoBody)
        ELSE IF rf = "transient"
        THEN Done("raise", tgt, "CosmosHttpResponseError", key, 1, 1, 0, 0, 0, 0, NoBody)
        ELSE IF found = {}
        THEN InsertPath(item, tgt, paths, san, cf, gen2, key, 0)
        ELSE IF remove_system_fields(target_doc) = sanitized_item
        THEN Done("skipped", tgt, "", key, 1, 1, 0, 0, 0, 0, NoBody)
        ELSE IF uf = "transient"
        THEN Done("raise", tgt, "CosmosHttpResponseError", key, 1, 1, 0, 1, 0, 0, item_to_write)
        ELSE IF r.res = "NotFound"
        THEN InsertPath(sanitized_item, tgt, paths, san, cf, gen2, key, 1)
        ELSE Done("updated", r.tgt, "", key, 1, 1, 0, 1, 0, 1, item_to_write)

\* Lines 92-150 for one scanned document.
ProcessDocument(item, tgt, paths, n, san, rf, uf, cf, gen1, gen2) ==
    LET target_pk_paths == _get_partition_key_path(paths)
        item_id == Get(item, K("id"))
        res == _get_partition_key_value(item, target_pk_paths)
        pk_values == res.e
    IN  IF Falsy(item_id)
        THEN Done("error", tgt, "", Null, 0, 0, 0, 0, 0, 0, NoBody)
        ELSE IF res.t = "raise"
        THEN Done("raise", tgt, res.exc, Null, 0, 0, 0, 0, 0, 0, NoBody)
        ELSE IF AnyInvalid(pk_values)
        THEN Done("error", tgt, "", Null, 0, 0, 0, 0, 0, 0, NoBody)
        ELSE Reconcile(Backfill(item, target_pk_paths, pk_values), item_id,
                       pk_values, tgt, paths, n, san, rf, uf, cf, gen1, gen2)

----------------------------------------------------------------------------
(* The collections the model runs on *)

\* Partition-key paths as a container's properties hold them.
PathPk == <<"/", "pk">>
PathState == <<"/", "state">>
PathAB == <<"/", "a", "/", "b">>

SourceSpecs == {<<PathPk>>, <<PathPk, PathAB>>, <<PathPk, PathState>>}
TargetSpecs == SourceSpecs \cup {<<PathState, PathPk>>}

DocA == (K("id") :> Str(<<"a">>)) @@ (K("pk") :> Str(<<"x">>))
DocB == (K("id") :> Str(<<"b">>)) @@ (K("pk") :> Str(<<"x", "y">>))
            @@ (K("Name") :> Str(<<"n">>))
DocC == (K("id") :> Str(<<"c">>)) @@ (K("pk") :> Num(7))
DocD == (K("id") :> Str(<<"d">>)) @@ (K("pk") :> Null)
DocE == (K("pk") :> Str(<<"x">>))
DocF == (K("id") :> Str(<<"f">>)) @@ (K("pk") :> Str(<<"x">>))
            @@ (K("state") :> Str(<<"s">>))
            @@ (K("a") :> Map((K("b") :> Str(<<"y">>)) @@ (K("_ts") :> Num(5))))
DocG == (K("id") :> Str(<<"g">>)) @@ (K("pk") :> Str(<<>>))
            @@ (K("a") :> Str(<<"z">>))
DocH == (K("id") :> Str(<<"h">>)) @@ (K("pk") :> Map((K("b") :> Str(<<"q">>))))
            @@ (K("a") :> Map((K("b") :> List(<<Str(<<"q">>)>>))))
DocI == (K("id") :> Str(<<>>)) @@ (K("pk") :> Str(<<"x">>))

Pool == <<DocA, DocB, DocC, DocD, DocE, DocF, DocG, DocH, DocI>>

\* The source collections: up to MaxDocs documents of the pool, in scan
\* order, as the source store returns them (with its system fields).
RECURSIVE Increasing(_)
Increasing(n) ==
    IF n = 0 THEN {<<>>}
    ELSE LET shorter == Increasing(n - 1)
         IN  shorter \cup
             {Append(q, i) : q \in {r \in shorter : Len(r) = n - 1},
                             i \in 1..Len(Pool)}

SourceCollections ==
    {[i \in 1..Len(q) |-> Stamp(Pool[q[i]], "src")] :
        q \in {r \in Increasing(MaxDocs) :
                  \A i \in 1..(Len(r) - 1) : r[i] < r[i + 1]}}

\* A document the store accepts under the given paths: an id and a scalar,
\* non-empty partition-key value at every path.
Storable(doc, paths) ==
    LET vals == [i \in 1..Len(paths) |->
                    StoreExtract(Map(doc), split(strip(paths[i])))]
    IN  /\ ~Falsy(Get(doc, K("id")))
        /\ \A i \in 1..Len(vals) : ~InvalidPkValue(vals[i])

\* An earlier version of a source document, as an earlier migration left it
\* in the target before the source document changed.
EarlierVersion(doc) ==
    Stamp((K("rev") :> Num(1)) @@ remove_system_fields(doc), "tgt")

\* A document of the target that did not come from the source as it is: it
\* has the id of DocF and another value of the field state.
Stray ==
    Stamp((K("id") :> Str(<<"f">>)) @@ (K("pk") :> Str(<<"x">>))
            @@ (K("state") :> Str(<<"fake">>)) @@ (K("rev") :> Num(2)), "tgt")

\* The stray documents a target may hold besides the documents of tgt: none,
\* or Stray when the source holds a document with its id and the target
\* none with its id and partition key.
Strays(src, tgt, paths) ==
    {{}} \cup
    {{Stray} : x \in {i \in 1..Len(src) :
                        /\ Get(src[i], K("id")) = Get(Stray, K("id"))
                        /\ Storable(Stray, paths)
                        /\ Find(tgt, Get(Stray, K("id")),
                                StorePk(Stray, paths), paths) = {}}}

\* The targets a run can start from: earlier versions of some of the source
\* documents, and possibly a stray document.
TargetContents(src, paths) ==
    UNION {{tgt \cup s : s \in Strays(src, tgt, paths)} :
             tgt \in {{EarlierVersion(src[i]) : i \in S} :
                        S \in SUBSET {i \in 1..Len(src) :
                                         Storable(src[i], paths)}}}

None == -1

----------------------------------------------------------------------------
(* State *)

VARIABLES
    srcPaths,           \* source container: partitionKey.paths
    tgtPaths,           \* target container: partitionKey.paths
    source,             \* source collection, in scan order
    target,             \* target collection: the set of stored documents
    batch_size,         \* DataMigrator.batch_size
    max_retries,        \* DataMigrator.max_retries
    sanitize,           \* DataMigrator.sanitize
    pc,                 \* position in migrate_container
    exc,                \* the exception migrate_container raised, or ""
    total_items,        \* result of the count query
    inserted, updated, skipped, errors,
    progress,           \* pbar.n
    continuation_token, \* None, or the position the next page starts at
    next_token,         \* page_iterator.continuation_token of the fetched page
    items,              \* documents of the fetched page not yet processed
    log,                \* history: what processing each document did, this run
    target_at_start,    \* history: the target when the current call began
    run,                \* number of the current migrate_container call
    prev,               \* history: counters the previous call returned
    mpc,                \* position in main.py ("direct": the migrator is called directly)
    containers,         \* the containers of the database, source and target side
    cidx,               \* migrate_database: index of the current container_id
    properties,         \* what get_container_properties returned
    results,            \* migrate_database: results
    exit_code,          \* what main() returned, or None
    vcall               \* history: the count queries of the last verify_migration call

vars == <<srcPaths, tgtPaths, source, target, batch_size, max_retries, sanitize,
          pc, exc, total_items, inserted, updated, skipped, errors, progress,
          continuation_token, next_token, items, log, target_at_start, run,
          prev, mpc, containers, cidx, properties, results, exit_code, vcall>>

config == <<srcPaths, tgtPaths, source, batch_size, max_retries, sanitize>>
counters == <<inserted, updated, skipped, errors, progress>>
caller == <<mpc, containers, cidx, properties, results, exit_code, vcall>>

NoProperties == [partition_key_path |-> <<>>, indexing_policy |-> Null]
NoCall == [container_id |-> 0, failed |-> "none", source_count |-> 0,
           target_count |-> 0]

NoResult == [inserted |-> -1, updated |-> -1, skipped |-> -1, errors |-> -1]

Init ==
    /\ srcPaths \in SourceSpecs
    /\ tgtPaths \in TargetSpecs
    /\ source \in SourceCollections
    /\ target \in TargetContents(source, tgtPaths)
    /\ batch_size \in {1, DefaultBatchSize}
    /\ max_retries \in {0, DefaultMaxRetries}
    /\ sanitize \in BOOLEAN
    /\ pc = "start"
    /\ exc = ""
    /\ total_items = 0
    /\ inserted = 0 /\ updated = 0 /\ skipped = 0 /\ errors = 0
    /\ progress = 0
    /\ continuation_token = None
    /\ next_token = None
    /\ items = <<>>
    /\ log = <<>>
    /\ target_at_start = target
    /\ run = 1
    /\ prev = NoResult
    /\ mpc = "direct"
    /\ containers = <<>>
    /\ cidx = 0
    /\ properties = NoProperties
    /\ results = <<>>
    /\ exit_code = None
    /\ vcall = NoCall

\* The comparison with the order of the paths ignored: what line 52 would
\* compute on sets of paths.  C7 is checked to fail with it.
PartitionKeyMismatchUnordered(source_pk_paths, target_pk_paths) ==
    {source_pk_paths[i] : i \in 1..Len(source_pk_paths)}
        # {target_pk_paths[i] : i \in 1..Len(target_pk_paths)}

\* Line 52: source_pk_paths != target_pk_paths, a comparison of lists.
PartitionKeyMismatch(source_pk_paths, target_pk_paths) ==
    source_pk_paths # target_pk_paths

\* Lines 43-74: read both partition-key specs, compare them, count the
\* source, zero the counters.  A failing container.read() is raised; a
\* failing count query leaves total_items at 0.
StartMigration ==
    /\ pc = "start"
    /\ \E readResp \in Responses, countResp \in Responses :
        IF readResp = "transient"
        THEN /\ pc' = "raised"
             /\ exc' = "CosmosHttpResponseError"
             /\ UNCHANGED total_items
        ELSE IF PartitionKeyMismatch(_get_partition_key_path(srcPaths),
                                     _get_partition_key_path(tgtPaths))
        THEN /\ pc' = "raised"
             /\ exc' = "ValueError"
             /\ UNCHANGED total_items
        ELSE /\ pc' = "scan"
             /\ exc' = ""
             /\ total_items' = IF countResp = "transient" THEN 0 ELSE Len(source)
    /\ inserted' = 0 /\ updated' = 0 /\ skipped' = 0 /\ errors' = 0
    /\ progress' = 0
    /\ continuation_token' = None
    /\ UNCHANGED <<caller, config, target, next_token, items, log, target_at_start,
                   run, prev>>

Min(a, b) == IF a < b THEN a ELSE b

\* Lines 77-90: request the page after continuation_token.  The store
\* returns up to max_item_count documents, possibly none, and the cursor of
\* the page after it (None at the end); an iterator with no page at all
\* raises StopIteration, which ends the scan; a failing query is raised.
FetchPage ==
    /\ pc = "scan"
    /\ LET pos == IF continuation_token = None THEN 0 ELSE continuation_token
           left == Len(source) - pos
       IN  \/ /\ pc' = "raised"
              /\ exc' = "CosmosHttpResponseError"
              /\ UNCHANGED <<items, next_token>>
           \/ /\ left = 0
              /\ continuation_token = None
              /\ pc' = "finish"
              /\ UNCHANGED <<exc, items, next_token>>
           \/ \E k \in 0..Min(batch_size, left) :
              /\ pc' = "page"
              /\ items' = SubSeq(source, pos + 1, pos + k)
              /\ next_token' = IF pos + k = Len(source) THEN None ELSE pos + k
              /\ UNCHANGED exc
    /\ UNCHANGED <<caller, config, target, total_items, counters, continuation_token,
                   log, target_at_start, run, prev>>

\* What the store will answer to the calls of one document: all succeed, or
\* one call (read_item, replace_item or create_item) fails transiently on
\* the first k attempts made for the document.
FaultChoices(n) ==
    {[call |-> "none", k |-> 0]} \cup
    {[call |-> c, k |-> k] : c \in {"read", "replace", "create"}, k \in 1..n}

\* The answer to a call on the given attempt.
Resp(fault, call, attempt) ==
    IF fault.call = call /\ attempt <= fault.k THEN "transient" ELSE "ok"

\* Lines 91-150: the next document of the page.
ProcessItem ==
    /\ pc = "page"
    /\ items # <<>>
    /\ \E fault \in FaultChoices(max_retries),
          gen1 \in (IF sanitize THEN Generators ELSE {CHOOSE g \in Generators : TRUE}),
          gen2 \in (IF sanitize THEN Generators ELSE {CHOOSE g \in Generators : TRUE}) :
        \E d \in {ProcessDocument(Head(items), target, tgtPaths, max_retries,
                                  sanitize, Resp(fault, "read", 1),
                                  Resp(fault, "replace", 1),
                                  Resp(fault, "create", 1), gen1, gen2)} :
            \* a failure is scripted only for a call that is issued
            /\ fault.call # "none" => d.exc = "CosmosHttpResponseError"
            /\ target' = d.tgt
            /\ log' = Append(log, [item |-> Head(items), fault |-> fault] @@ d)
            /\ inserted' = inserted + (IF d.outcome = "inserted" THEN 1 ELSE 0)
            /\ updated' = updated + (IF d.outcome = "updated" THEN 1 ELSE 0)
            /\ skipped' = skipped + (IF d.outcome = "skipped" THEN 1 ELSE 0)
            /\ errors' = errors + (IF d.outcome = "error" THEN 1 ELSE 0)
            /\ IF d.outcome = "raise"
               THEN /\ pc' = "raised"
                    /\ exc' = d.exc
                    /\ UNCHANGED <<progress, items>>
               ELSE /\ progress' = progress + 1
                    /\ items' = Tail(items)
                    /\ UNCHANGED <<pc, exc>>
    /\ UNCHANGED <<caller, config, total_items, continuation_token, next_token,
                   target_at_start, run, prev>>

\* The scan ended by the progress bar's total instead of the cursor: what
\* line 153 would be if it also tested pbar.n >= total_items.  C19 is checked
\* to fail with it.
NoMorePagesByTotal(token) == token = None \/ progress >= total_items

\* Line 153: if not continuation_token
NoMorePages(token) == token = None

\* Lines 152-154: take the cursor of the page just processed; stop when
\* there is none.
AdvanceCursor ==
    /\ pc = "page"
    /\ items = <<>>
    /\ continuation_token' = next_token
    /\ pc' = IF NoMorePages(next_token) THEN "finish" ELSE "scan"
    /\ UNCHANGED <<caller, config, target, exc, total_items, counters, next_token,
                   items, log, target_at_start, run, prev>>

\* Lines 156-176: return the counters.
ReturnResult ==
    /\ pc = "finish"
    /\ pc' = "returned"
    /\ UNCHANGED <<caller, config, target, exc, total_items, counters,
                   continuation_token, next_token, items, log, target_at_start,
                   run, prev>>

\* The caller runs migrate_container again on the same containers; the
\* locals of the first call are gone.
Rerun ==
    /\ pc = "returned"
    /\ run = 1
    /\ run' = 2
    /\ prev' = [inserted |-> inserted, updated |-> updated,
                skipped |-> skipped, errors |-> errors]
    /\ pc' = "start"
    /\ exc' = ""
    /\ total_items' = 0
    /\ inserted' = 0 /\ updated' = 0 /\ skipped' = 0 /\ errors' = 0
    /\ progress' = 0
    /\ continuation_token' = None
    /\ next_token' = None
    /\ items' = <<>>
    /\ log' = <<>>
    /\ target_at_start' = target
    /\ UNCHANGED <<caller, config, target>>

Next ==
    \/ StartMigration
    \/ FetchPage
    \/ ProcessItem
    \/ AdvanceCursor
    \/ ReturnResult
    \/ Rerun

Spec == Init /\ [][Next]_vars

----------------------------------------------------------------------------
(* containers.py: ContainerManager *)

PathId == <<"/", "id">>

\* The partition-key paths of a container that does not exist.
Absent == <<>>

\* ContainerManager.get_container_properties: partitionKey.paths[0] and the
\* indexing policy of the source container; the fallback "/id" when reading
\* the container fails.  (The throughput it also returns does not bear on
\* the partition key and is left out.)
get_container_properties(paths, resp) ==
    IF resp = "transient"
    THEN [partition_key_path |-> PathId, indexing_policy |-> Null]
    ELSE [partition_key_path |-> paths[1],
          indexing_policy |-> Str(<<"policy">>)]

\* ContainerManager.create_container_if_not_exists on the target side of a
\* container c: an existing container is returned as it is, an absent one is
\* created empty with PartitionKey(path=properties["partition_key_path"]).
create_container_if_not_exists(c, props) ==
    IF c.tgtPaths = Absent
    THEN [c EXCEPT !.tgtPaths = <<props.partition_key_path>>, !.target = {}]
    ELSE c

----------------------------------------------------------------------------
(* DataMigrator.verify_migration *)

\* A failure reported as a match of two zero counts.  C16 is checked to fail
\* with it.
VerifyFailureAsMatch == [verified |-> TRUE, source_count |-> 0, target_count |-> 0]

\* Line 211: what the except clause returns.
VerifyFailure == [verified |-> FALSE, source_count |-> 0, target_count |-> 0]

\* A comparison that accepts a target holding more than the source.  C15 is
\* checked to fail with it.
CountsMatchAtLeast(source_count, target_count) == source_count <= target_count

\* Line 198: source_count == target_count
CountsMatch(source_count, target_count) == source_count = target_count

\* The count query that fails in a verify_migration call: none, the one on
\* the source (the target is then not queried) or the one on the target.
VerifyFaults == {"none", "source", "target"}

\* Lines 184-211: the two count queries, each of which may fail.
verify_migration(src, tgt, failed) ==
    IF failed # "none"
    THEN VerifyFailure
    ELSE [verified |-> CountsMatch(Len(src), Cardinality(tgt)),
          source_count |-> Len(src),
          target_count |-> Cardinality(tgt)]

----------------------------------------------------------------------------
(* main.py: migrate_database, migrate_container, main *)

Src(q) == [i \in 1..Len(q) |-> Stamp(q[i], "src")]

Container(sp, src, tp, tgt) ==
    [srcPaths |-> sp, source |-> src, tgtPaths |-> tp, target |-> tgt]

\* The containers a database is made of: the source side, and the target
\* side as it is before the run (absent, or existing with its own paths
\* and documents).
ContainerPool ==
    { Container(<<PathPk>>, Src(<<DocA, DocD>>), Absent, {}),
      Container(<<PathPk>>, Src(<<>>), Absent, {}),
      Container(<<PathPk, PathState>>, Src(<<DocF>>), Absent, {}),
      Container(<<PathPk>>, Src(<<DocA>>), <<PathPk>>, {}),
      Container(<<PathPk>>, Src(<<DocA>>), <<PathPk>>,
                {EarlierVersion(Stamp(DocA, "src"))}),
      Container(<<PathPk>>, Src(<<DocA>>), <<PathPk>>,
                {Stamp(DocA, "tgt"), Stamp(DocF, "tgt")}),
      Container(<<PathPk>>, Src(<<DocA>>), <<PathState, PathPk>>, {}),
      Container(<<PathPk, PathState>>, Src(<<DocF>>), <<PathPk, PathState>>, {}) }

RECURSIVE ContainerLists(_)
ContainerLists(n) ==
    IF n = 0 THEN {<<>>}
    ELSE LET shorter == ContainerLists(n - 1)
         IN  shorter \cup
             {Append(q, c) : q \in {r \in shorter : Len(r) = n - 1},
                             c \in ContainerPool}

\* The state before main() or migrate_database() is called: no migrator
\* call is in progress.
MainInit ==
    /\ mpc \in {"main", "migrate_database"}
    /\ containers \in ContainerLists(MaxContainers)
    /\ cidx = 0
    /\ properties = NoProperties
    /\ results = <<>>
    /\ exit_code = None
    /\ vcall = NoCall
    /\ batch_size = DefaultBatchSize
    /\ max_retries = DefaultMaxRetries
    /\ sanitize \in BOOLEAN
    /\ srcPaths = Absent /\ tgtPaths = Absent
    /\ source = <<>> /\ target = {}
    /\ pc = "idle"
    /\ exc = ""
    /\ total_items = 0
    /\ inserted = 0 /\ updated = 0 /\ skipped = 0 /\ errors = 0
    /\ progress = 0
    /\ continuation_token = None
    /\ next_token = None
    /\ items = <<>>
    /\ log = <<>>
    /\ target_at_start = {}
    /\ run = 1
    /\ prev = NoResult

migrator == <<pc, exc, total_items, counters, continuation_token, next_token,
              items, log, target_at_start, run, prev>>

\* main(), lines 85-90 and 165-167: get_args() calls
\* parser.parse_args("--sanitize", type=bool, ...) at line 23, a TypeError
\* (unexpected keyword argument) on every call; main logs it and returns 1.
Main ==
    /\ mpc = "main"
    /\ mpc' = "exit"
    /\ exit_code' = 1
    /\ UNCHANGED <<containers, cidx, properties, results, vcall, config,
                   target, migrator>>

\* migrate_database, lines 60-71: list the containers and enter the loop.
\* A failing list_containers (or database call) is raised.
MigrateDatabase ==
    /\ mpc = "migrate_database"
    /\ \E resp \in Responses :
        /\ mpc' = IF resp = "transient" THEN "db_raised"
                  ELSE IF containers = <<>> THEN "db_returned"
                  ELSE "properties"
        /\ cidx' = IF resp = "transient" \/ containers = <<>> THEN 0 ELSE 1
    /\ results' = <<>>
    /\ UNCHANGED <<containers, properties, exit_code, vcall, config, target,
                   migrator>>

\* main.migrate_container, line 34.
GetContainerProperties ==
    /\ mpc = "properties"
    /\ \E resp \in Responses :
        properties' = get_container_properties(containers[cidx].srcPaths, resp)
    /\ mpc' = "create"
    /\ UNCHANGED <<containers, cidx, results, exit_code, vcall, config, target,
                   migrator>>

\* main.migrate_container, lines 37-43: create the target container if it
\* does not exist and call migrator.migrate_container on the pair.  A
\* failing create is raised through migrate_container and migrate_database.
CreateContainerIfNotExists ==
    /\ mpc = "create"
    /\ \/ /\ mpc' = "db_raised"
          /\ UNCHANGED <<containers, config, target, migrator>>
       \/ LET c == create_container_if_not_exists(containers[cidx], properties)
          IN  /\ containers' = [containers EXCEPT ![cidx] = c]
              /\ srcPaths' = c.srcPaths
              /\ tgtPaths' = c.tgtPaths
              /\ source' = c.source
              /\ target' = c.target
              /\ target_at_start' = c.target
              /\ mpc' = "migrate"
              /\ pc' = "start"
              /\ exc' = ""
              /\ total_items' = 0
              /\ inserted' = 0 /\ updated' = 0 /\ skipped' = 0 /\ errors' = 0
              /\ progress' = 0
              /\ continuation_token' = None
              /\ next_token' = None
              /\ items' = <<>>
              /\ log' = <<>>
              /\ UNCHANGED <<batch_size, max_retries, sanitize, run, prev>>
    /\ UNCHANGED <<cidx, properties, results, exit_code, vcall>>

\* main.migrate_container, lines 46-53, and migrate_database, lines 73-78:
\* verify the container, append its result, go to the next container_id.
VerifyMigration ==
    /\ mpc = "migrate"
    /\ pc = "returned"
    /\ \E failed \in VerifyFaults :
        LET v == verify_migration(source, target, failed)
        IN  /\ results' = Append(results,
                    [container_id |-> cidx, inserted |-> inserted,
                     updated |-> updated, skipped |-> skipped,
                     errors |-> errors] @@ v)
            /\ vcall' = [container_id |-> cidx, failed |-> failed,
                          source_count |-> Len(source),
                          target_count |-> Cardinality(target)]
    /\ containers' = [containers EXCEPT ![cidx].target = target]
    /\ IF cidx < Len(containers)
       THEN cidx' = cidx + 1 /\ mpc' = "properties"
       ELSE cidx' = cidx /\ mpc' = "db_returned"
    \* the locals of main.migrate_container and of the migrator call are gone
    /\ properties' = NoProperties
    /\ pc' = "idle"
    /\ exc' = ""
    /\ total_items' = 0
    /\ inserted' = 0 /\ updated' = 0 /\ skipped' = 0 /\ errors' = 0
    /\ progress' = 0
    /\ continuation_token' = None
    /\ next_token' = None
    /\ items' = <<>>
    /\ log' = <<>>
    /\ UNCHANGED <<exit_code, config, target, target_at_start, run, prev>>

\* main.migrate_container, lines 54-56, and migrate_database, lines 79-81:
\* an exception of migrator.migrate_container is logged and raised again,
\* out of the loop over the containers.
ContainerFailed ==
    /\ mpc = "migrate"
    /\ pc = "raised"
    /\ mpc' = "db_raised"
    /\ containers' = [containers EXCEPT ![cidx].target = target]
    \* the locals of main.migrate_container and of the migrator call are gone
    /\ properties' = NoProperties
    /\ pc' = "idle"
    /\ total_items' = 0
    /\ inserted' = 0 /\ updated' = 0 /\ skipped' = 0 /\ errors' = 0
    /\ progress' = 0
    /\ continuation_token' = None
    /\ next_token' = None
    /\ items' = <<>>
    /\ log' = <<>>
    /\ UNCHANGED <<cidx, results, exit_code, vcall, config, target, exc,
                   target_at_start, run, prev>>

MainNext ==
    \/ Main
    \/ MigrateDatabase
    \/ GetContainerProperties
    \/ CreateContainerIfNotExists
    \/ StartMigration
    \/ FetchPage
    \/ ProcessItem
    \/ AdvanceCursor
    \/ ReturnResult
    \/ VerifyMigration
    \/ ContainerFailed

MainSpec == MainInit /\ [][MainNext]_vars

----------------------------------------------------------------------------
(* Notions the properties are stated with *)

\* The partition-key values migrate_container resolves for a document.
Resolved(item) ==
    _get_partition_key_value(item, _get_partition_key_path(tgtPaths))

\* The full partition key of a document: the single value, or the ordered
\* sequence of the values of all paths.
FullKey(item) ==
    IF Len(Resolved(item).e) = 1 THEN Resolved(item).e[1]
    ELSE List(Resolved(item).e)

\* The source documents with an id and a scalar, non-null, non-empty value
\* at every partition-key path.
ValidSource == {i \in 1..Len(source) : Storable(source[i], tgtPaths)}

Matching == _get_partition_key_path(srcPaths) = _get_partition_key_path(tgtPaths)

Ended == pc \in {"returned", "raised"}

\* No call of the store failed in a way that ended the current run.
NoStoreFailure == exc # "CosmosHttpResponseError"

Last(q) == q[Len(q)]

\* A step that processes the document `items` starts with.
AtDocument == pc = "page" /\ items # <<>>

\* The stored document with the id and the full partition key of item.
Stored(item, tgt) ==
    {d \in tgt : /\ Get(d, K("id")) = Get(item, K("id"))
                 /\ StorePk(d, tgtPaths) = StorePk(item, tgtPaths)}

\* The content migrate_container compares: the document as scanned, its
\* partition-key fields filled in, without system fields.
Content(item) ==
    remove_system_fields(
        Backfill(item, _get_partition_key_path(tgtPaths), Resolved(item).e))

----------------------------------------------------------------------------
(* Properties *)

\* C1: idempotence.  When migrate_container has run to completion and is run
\* again on the same source and target, with no store failure, the second
\* run returns inserted = 0 and updated = 0, and skipped = the number of
\* source documents that are not permanently invalid.
C1_SecondRunOnlySkips ==
    (run = 2 /\ Ended /\ NoStoreFailure /\ max_retries >= 1)
        => /\ pc = "returned"
           /\ inserted = 0
           /\ updated = 0
           /\ skipped = Cardinality(ValidSource)

\* C2: migration into an empty target.  With matching partition-key specs,
\* an empty target and no store failure, migrate_container returns
\* inserted = the number of source documents with an id and a valid
\* partition-key value of any scalar type, errors = the number of the other
\* documents, updated = 0 and skipped = 0, and the target then holds exactly
\* the valid source documents.
C2_EmptyTargetReceivesValidDocuments ==
    (run = 1 /\ Ended /\ Matching /\ target_at_start = {} /\ max_retries >= 1
        /\ exc \notin {"CosmosHttpResponseError", "AttributeError"})
        => /\ pc = "returned"
           /\ inserted = Cardinality(ValidSource)
           /\ errors = Len(source) - Cardinality(ValidSource)
           /\ updated = 0
           /\ skipped = 0
           /\ Cardinality(target) = Cardinality(ValidSource)
           /\ {Get(d, K("id")) : d \in target}
                  = {Get(source[i], K("id")) : i \in ValidSource}

\* C3: the reconciliation lookup key.  Every read_item issued for a validated
\* document uses the document's full resolved partition key: the single
\* value for one path, the whole sequence for several; never a part of it.
C3_LookupUsesFullKey ==
    \A i \in 1..Len(log) :
        log[i].reads > 0 => log[i].key = FullKey(log[i].item)

\* C4: retry exhaustion is per-document and non-fatal.  A document whose
\* store call fails transiently on every one of the max_retries attempts is
\* counted as exactly one error after max_retries attempts, and
\* migrate_container does not raise.
C4_ExhaustedRetriesCountOneError ==
    \A i \in 1..Len(log) :
        (log[i].fault.call # "none" /\ log[i].fault.k = max_retries)
            => /\ log[i].outcome = "error"
               /\ log[i].attempts = max_retries
               /\ pc # "raised"

\* C5: transient errors are retried.  With max_retries >= 2, a document whose
\* store call fails transiently on attempts 1..k, k < max_retries, and
\* succeeds on attempt k + 1 is attempted k + 1 times and is counted once as
\* inserted or updated, never as an error.
C5_TransientFailureIsRetried ==
    \A i \in 1..Len(log) :
        (max_retries >= 2 /\ log[i].fault.call # "none"
            /\ log[i].fault.k < max_retries)
            => /\ log[i].attempts = log[i].fault.k + 1
               /\ log[i].outcome \in {"inserted", "updated"}

\* C6: a conflict on insert is a skip.  When read_item reports not-found and
\* the create_item that follows fails because the document already exists,
\* the document is counted as skipped and migrate_container goes on without
\* raising.
C6_ConflictOnInsertIsSkip ==
    \A i \in 1..Len(log) :
        (log[i].fault.call = "none" /\ log[i].creates = 1 /\ log[i].created = 0)
            => /\ log[i].outcome = "skipped"
               /\ ~(i = Len(log) /\ pc = "raised")

\* C7: mismatch abort.  When the partition-key paths of the source differ
\* from those of the target (path, order or count), migrate_container raises
\* before any document is scanned and the target is not written.
C7_MismatchAbortsBeforeScan ==
    ~Matching
        => /\ pc \in {"start", "raised"}
           /\ log = <<>>
           /\ items = <<>>
           /\ continuation_token = None
           /\ target = target_at_start

\* C7 witness: a run on mismatched paths has raised ValueError while the
\* source holds documents the target would accept.
C7_Witness ==
    /\ ~Matching
    /\ pc = "raised"
    /\ exc = "ValueError"
    /\ \E i \in 1..Len(source) : Storable(source[i], tgtPaths)

\* The element migrate_container resolves for one path, when resolving it
\* does not raise.
ElementAt(item, p) ==
    Traverse(Map(item), split(_get_partition_key_path(tgtPaths)[p]))

\* A document with a missing or empty id, or with a partition-key element
\* that is null, the empty string, a mapping or a sequence.
InvalidDocument(item) ==
    \/ Get(item, K("id")) \in {Null, Str(<<>>)}
    \/ \E p \in 1..Len(tgtPaths) :
          ElementAt(item, p).t # "raise" /\ InvalidPkValue(ElementAt(item, p))

\* C8: invalid documents are excluded.  A scanned document with a missing or
\* empty id, or with a null, empty, mapping or sequence partition-key
\* element, causes no call on the target, is counted as exactly one error
\* without being attempted, and does not stop the scan.
C8_InvalidDocumentIsOneError ==
    \A i \in 1..Len(log) :
        InvalidDocument(log[i].item)
            => /\ log[i].outcome = "error"
               /\ log[i].reads = 0 /\ log[i].creates = 0 /\ log[i].replaces = 0
               /\ log[i].attempts = 0

\* C9: content-drift update.  When the target holds a document with the id
\* and partition key of the source document and different content (system
\* fields excluded), the document is counted as updated, exactly one replace
\* is issued, and without sanitization the target content then equals the
\* source content.
C9_DriftedDocumentIsUpdated ==
    [][(/\ AtDocument
        /\ max_retries >= 1
        /\ ~InvalidDocument(Head(items))
        /\ Resolved(Head(items)).t # "raise"
        /\ Stored(Head(items), target) # {}
        /\ \A d \in Stored(Head(items), target) :
              remove_system_fields(d) # Content(Head(items))
        /\ exc' # "CosmosHttpResponseError")
        => /\ updated' = updated + 1
           /\ Last(log').replaces = 1
           /\ Last(log').creates = 0
           /\ ~sanitize =>
                 \A d \in Stored(Head(items), target') :
                     remove_system_fields(d) = Content(Head(items))]_vars

\* C10: identical content is skipped without a write.  When the target holds
\* a document with the id and partition key of the source document and the
\* same content (system fields excluded), the document is counted as
\* skipped, neither create_item nor replace_item is called, and the target
\* is unchanged.
C10_IdenticalDocumentIsSkipped ==
    [][(/\ AtDocument
        /\ max_retries >= 1
        /\ ~InvalidDocument(Head(items))
        /\ Resolved(Head(items)).t # "raise"
        /\ Stored(Head(items), target) # {}
        /\ \A d \in Stored(Head(items), target) :
              remove_system_fields(d) = Content(Head(items))
        /\ exc' # "CosmosHttpResponseError")
        => /\ skipped' = skipped + 1
           /\ Last(log').creates = 0
           /\ Last(log').replaces = 0
           /\ target' = target]_vars

\* The top-level field of the p-th partition-key path: the first segment.
TopField(p) == Head(split(_get_partition_key_path(tgtPaths)[p]))

\* A document whose body lacks the top-level field of a partition-key path.
MissingKeyField(item) ==
    \E p \in 1..Len(tgtPaths) : TopField(p) \notin DOMAIN item

\* The value a body holds at the p-th partition-key path.
BodyAt(body, p) ==
    StoreExtract(Map(body), split(_get_partition_key_path(tgtPaths)[p]))

\* C11: partition-key backfill.  A source document whose body lacks the
\* top-level field of a partition-key path is still transferred (inserted or
\* updated), and the body written to the target contains that field, holding
\* the resolved partition-key value.
C11_MissingKeyFieldIsBackfilled ==
    \A i \in 1..Len(log) :
        (/\ max_retries >= 1
         /\ log[i].fault.call = "none"
         /\ ~Falsy(Get(log[i].item, K("id")))
         /\ MissingKeyField(log[i].item)
         /\ log[i].exc = "")
            => /\ log[i].outcome \in {"inserted", "updated"}
               /\ \A p \in 1..Len(tgtPaths) :
                     /\ TopField(p) \in DOMAIN log[i].body
                     /\ BodyAt(log[i].body, p) = Resolved(log[i].item).e[p]

\* C12: sanitization preserves identity and routing.  With sanitize enabled,
\* the body of every document written (created or replaced) has the id of
\* the source document and, at every partition-key path, the value the
\* source document has there.
C12_SanitizedBodyKeepsIdAndKey ==
    \A i \in 1..Len(log) :
        (sanitize /\ (log[i].created = 1 \/ log[i].replaced = 1))
            => /\ Get(log[i].body, K("id")) = Get(log[i].item, K("id"))
               /\ \A p \in 1..Len(tgtPaths) :
                     BodyAt(log[i].body, p) = BodyAt(log[i].item, p)

\* C13: target creation keeps the partition-key spec.  When the target
\* collection is absent and the source's properties were read,
\* create_container_if_not_exists creates it with the partition-key paths of
\* the source (every path, same order, same count), so that the
\* migrate_container call that follows finds no partition-key mismatch.
C13_CreatedTargetKeepsKeySpec ==
    [][(/\ mpc = "create" /\ mpc' = "migrate"
        /\ containers[cidx].tgtPaths = Absent
        /\ properties.indexing_policy # Null)
        => /\ tgtPaths' = srcPaths'
           /\ ~PartitionKeyMismatch(_get_partition_key_path(srcPaths'),
                                    _get_partition_key_path(tgtPaths'))]_vars

\* The database run is over: migrate_database returned or raised.
DatabaseEnded == mpc \in {"db_returned", "db_raised"}

\* C14: collection failures are isolated.  When the migration of one
\* collection fails with a partition-key mismatch, every collection after it
\* in the list is still migrated and verified: the run ends with a result
\* for each of them.
C14_MismatchDoesNotStopLaterContainers ==
    (DatabaseEnded /\ exc = "ValueError")
        => \A i \in (cidx + 1)..Len(containers) :
              \E j \in 1..Len(results) : results[j].container_id = i

\* A verify_migration call has been made; its result is the last of results.
Verified == vcall.container_id > 0

\* C15: verify_migration returns matched = true if and only if both counts
\* were read and the source count equals the target count, and when both
\* count queries succeed it returns both counts as read, equal or not.
C15_VerifiedIffCountsMatch ==
    Verified =>
        /\ Last(results).container_id = vcall.container_id
        /\ Last(results).verified
              <=> (vcall.failed = "none"
                      /\ vcall.source_count = vcall.target_count)
        /\ vcall.failed = "none"
              => /\ Last(results).source_count = vcall.source_count
                 /\ Last(results).target_count = vcall.target_count

\* C15 witness: a verification of an imbalanced pair returned matched =
\* false with both counts; the target holds more documents than the source.
C15_Witness ==
    /\ Verified
    /\ vcall.failed = "none"
    /\ vcall.source_count < vcall.target_count
    /\ ~Last(results).verified
    /\ Last(results).target_count = vcall.target_count

\* C16: verify_migration never raises.  When the count query on the source
\* or on the target fails, it returns (false, 0, 0), and the caller records
\* the collection's result and goes on.
C16_FailedVerificationIsRecorded ==
    [][(/\ mpc = "migrate" /\ pc = "returned" /\ mpc' # mpc
        /\ vcall'.failed # "none")
        => /\ mpc' \in {"properties", "db_returned"}
           /\ Len(results') = Len(results) + 1
           /\ Last(results').container_id = cidx
           /\ ~Last(results').verified
           /\ Last(results').source_count = 0
           /\ Last(results').target_count = 0
           /\ Last(results').inserted = inserted
           /\ Last(results').updated = updated
           /\ Last(results').skipped = skipped
           /\ Last(results').errors = errors]_vars

\* C16 witness: the count query on a non-empty target failed, and the run
\* went on to the next container.
C16_Witness ==
    /\ Verified
    /\ vcall.failed = "target"
    /\ vcall.target_count > 0
    /\ Last(results).target_count = 0
    /\ mpc = "properties"
    /\ cidx = vcall.container_id + 1

\* The position in the source a cursor stands for.
Position(token) == IF token = None THEN 0 ELSE token

\* C17: no page is skipped or replayed.  Within one run without store
\* failure a page is requested only when every document of the page before
\* it has been processed, with the cursor that page returned (null for the
\* first); the documents processed are the documents of the source, in
\* order, each once; and when the run has ended every document of the source
\* has been processed, whatever the sizes of the pages.
C17_EveryPageProcessedOnce ==
    (Matching /\ pc # "start")
        => /\ \A i \in 1..Len(log) : log[i].item = source[i]
           /\ pc = "scan"
                => /\ items = <<>>
                   /\ Position(continuation_token) = Len(log)
                   /\ Len(log) > 0 => continuation_token = next_token
           /\ pc = "page"
                => items = SubSeq(source, Len(log) + 1, Len(log) + Len(items))
           /\ (Ended /\ NoStoreFailure) => Len(log) = Len(source)

\* A page request that brings the scan forward: the end of the sequence, a
\* page with documents, or a page without cursor.
ProductiveFetch ==
    FetchPage /\ (pc' = "finish" \/ items' # <<>> \/ next_token' = None)

\* The runs termination is checked on: one partition-key path on both
\* sides, the default retries, no sanitization.
LiveInit ==
    /\ Init
    /\ srcPaths = <<PathPk>>
    /\ tgtPaths \in {<<PathPk>>, <<PathPk, PathState>>}
    /\ max_retries = DefaultMaxRetries
    /\ ~sanitize
    /\ \A i \in 1..Len(source) :
          remove_system_fields(source[i]) \in {DocA, DocC, DocD, DocE}

\* A step of migrate_container other than a page request.
Progress ==
    StartMigration \/ ProcessItem \/ AdvanceCursor \/ ReturnResult

\* The run is carried on: migrate_container does not wait forever, and the
\* source holds finitely many pages, so the store does not answer with empty
\* pages forever.  The caller need not run the migration again.
LiveSpec ==
    LiveInit /\ [][Next]_vars /\ WF_vars(Progress) /\ SF_vars(ProductiveFetch)

\* C18: scan termination.  After a page without continuation cursor no
\* further page is requested, and every run on matching containers without
\* store failure eventually returns a result.
C18_ScanEndsAndReturns ==
    /\ [][(pc = "page" /\ next_token = None) => pc' # "scan"]_vars
    /\ (pc = "start" /\ Matching)
          ~> (pc = "returned" \/ exc = "CosmosHttpResponseError")

NoTally == [inserted |-> 0, updated |-> 0, skipped |-> 0, error |-> 0,
            none |-> 0, raise |-> 0]

\* The generator draws a sanitizer call can make in this run.
Draws == IF sanitize THEN Generators ELSE {CHOOSE g \in Generators : TRUE}

\* The tallies of outcomes that reconciling the documents of src, in order,
\* against tgt can give, every store call succeeding: computed from the
\* documents and the generator draws alone, without the total of the count
\* query.
RECURSIVE Tallies(_, _, _)
Tallies(src, tgt, acc) ==
    IF src = <<>> THEN {acc}
    ELSE UNION {Tallies(Tail(src), d.tgt, [acc EXCEPT ![d.outcome] = @ + 1]) :
                  d \in {ProcessDocument(Head(src), tgt, tgtPaths, max_retries,
                                         sanitize, "ok", "ok", "ok", g1, g2) :
                            g1 \in Draws, g2 \in Draws}}

\* C19: a failing count query is not fatal.  The total is the count or, when
\* the count query failed, 0; either way the scan goes over every source
\* document and the counters returned are those of reconciling the source
\* documents, which do not depend on the total.
C19_CountFailureChangesNothing ==
    /\ pc \in {"scan", "page", "finish", "returned"}
          => total_items \in {0, Len(source)}
    /\ pc = "returned"
          => /\ Len(log) = Len(source)
             /\ \E t \in Tallies(source, target_at_start, NoTally) :
                    /\ inserted = t.inserted
                    /\ updated = t.updated
                    /\ skipped = t.skipped
                    /\ errors = t.error

\* C19 witness: a run whose count query failed (total 0 for a source of two
\* documents) has returned, having written to the target.
C19_Witness ==
    /\ pc = "returned"
    /\ total_items = 0
    /\ Len(source) = 2
    /\ inserted + updated + skipped + errors = 2
    /\ inserted + updated >= 1

\* The value at a path of a document is missing: a field on the path is
\* absent or null, or an intermediate value is not a mapping.
PathBroken(item, p) == BodyAt(item, p) = Null

\* C20: partition-key resolution never fails.  For every scanned document
\* and every path, _get_partition_key_value yields an element, null when a
\* field on the path is absent or an intermediate value is not a mapping;
\* the document is then counted as an error and the migration goes on.
C20_ResolutionNeverFails ==
    \A i \in 1..Len(log) :
        /\ Resolved(log[i].item).t # "raise"
        /\ \A p \in 1..Len(tgtPaths) :
              PathBroken(log[i].item, p) => ElementAt(log[i].item, p) = Null
        /\ (/\ ~Falsy(Get(log[i].item, K("id")))
            /\ \E p \in 1..Len(tgtPaths) : PathBroken(log[i].item, p))
              => log[i].outcome = "error"

\* The documents counted with an outcome so far in this run.
Counted == inserted + updated + skipped + errors

\* C21: every processed document gets exactly one outcome.  In every state
\* of migrate_container, for every max_retries >= 0, the four counters add
\* up to the number of documents whose processing has finished (the
\* progress count); within a run no counter decreases; and at return the
\* sum is the number of documents scanned.
C21_OneOutcomePerDocument ==
    [][/\ Counted = progress
       /\ Counted' = progress'
       /\ (run' = run /\ pc # "start")
             => /\ inserted' >= inserted /\ updated' >= updated
                /\ skipped' >= skipped /\ errors' >= errors
       /\ pc' = "returned" => Counted' = Len(log')]_vars

\* The number of store calls of one kind that succeeded in this run.
RECURSIVE Succeeded(_, _)
Succeeded(q, kind) ==
    IF q = <<>> THEN 0 ELSE Head(q)[kind] + Succeeded(Tail(q), kind)

\* C22: counters match the writes.  In every state of a run, inserted is the
\* number of create_item calls that succeeded on the target and updated the
\* number of replace_item calls that succeeded; the target has grown by the
\* documents created; and a document counted as skipped or error has caused
\* no successful write.
C22_CountersMatchWrites ==
    pc \notin {"start", "idle"}
        => /\ inserted = Succeeded(log, "created")
           /\ updated = Succeeded(log, "replaced")
           /\ Cardinality(target) = Cardinality(target_at_start) + inserted
           /\ \A i \in 1..Len(log) :
                 /\ log[i].outcome \in {"skipped", "error"}
                       => log[i].created = 0 /\ log[i].replaced = 0
                 /\ log[i].created + log[i].replaced <= 1

\* C22 witness: a run has returned after one successful create_item and one
\* successful replace_item.
C22_Witness ==
    /\ pc = "returned"
    /\ inserted = 1 /\ updated = 1
    /\ Succeeded(log, "created") = 1
    /\ Succeeded(log, "replaced") = 1
    /\ Cardinality(target) = Cardinality(target_at_start) + 1

\* A target document with the id and partition key of a source document.
MatchesSource(d) ==
    \E i \in 1..Len(source) :
        /\ Get(source[i], K("id")) = Get(d, K("id"))
        /\ StorePk(source[i], tgtPaths) = StorePk(d, tgtPaths)

\* C23: the source is read-only and the target is only added to.  No step
\* of a sequence of migrate_container calls, with or without store failures,
\* changes the source collection, and a target document whose id and
\* partition key match no source document stays in the target as it is.
C23_SourceAndForeignTargetUntouched ==
    [][/\ source' = source
       /\ \A d \in target : ~MatchesSource(d) => d \in target']_vars

\* C24: migrate then verify.  When migrate_container has returned with
\* errors = 0 from a target that held no document absent from the source,
\* and the source has not changed, the verify_migration call that follows,
\* its count queries succeeding, returns matched = true, for every setting
\* of the sanitize flag and every partition-key spec.  (Stated for
\* max_retries >= 1: with no attempt at all nothing is written.)
C24_MigrateThenVerifyMatches ==
    (/\ pc = "returned"
     /\ max_retries >= 1
     /\ errors = 0
     /\ \A d \in target_at_start : MatchesSource(d))
        => verify_migration(source, target, "none").verified
====
